---------------------------- MODULE Spec2Model ----------------------------
(***************************************************************************)
(* AWS permission-boundary scanner (src/gum.py): AWSAccountScanner and     *)
(* main.  One run of scan_all_accounts on a freshly constructed scanner:   *)
(* the account directory is listed, one worker task per active account is  *)
(* submitted to a ThreadPoolExecutor of max_workers threads, every task    *)
(* scans its account (assume role, page through the roles, classify) and   *)
(* publishes its records under the scanner's lock, and the main thread     *)
(* renders the table, the summary and the CSV and returns self.results.    *)
(*                                                                         *)
(* Python strings are sequences of one-character strings, so that          *)
(* splitting, slicing, formatting and the ordering used by sorted() are    *)
(* computed and not assumed.                                               *)
(***************************************************************************)
EXTENDS Integers, Sequences, FiniteSets, TLC

\* ------------------------------------------------------------------ bounds
\* Accounts the organization directory holds at most.
MaxAccounts == 2
\* Largest max_workers handed to scan_all_accounts.
MaxWorkers == 2
\* Roles of one account at most, in the exhaustive single-account runs.
MaxRoles == 3

\* The seconds a run may last.
MaxClock == 2
\* The calls of scan_all_accounts on one scanner.
MaxRuns == 2

\* ----------------------------------------------------------------- strings
\* The characters the model's strings use, in increasing code-point order
\* (Python compares str values by code point).
AsciiOrder ==
    << " ", "'", "(", ")", ".", "/",
       "0", "1", "2", "3", "4", "5", "6", "7", "8", "9", ":",
       "A", "B", "C", "D", "E", "H", "I", "L", "M", "N", "O", "P", "R", "S",
       "T", "U", "W", "Y", "_",
       "a", "b", "c", "e", "i", "k", "l", "m", "n", "o", "p", "r", "s", "t",
       "u", "x", "y", "z" >>

Code(c) == CHOOSE i \in 1..Len(AsciiOrder) : AsciiOrder[i] = c

\* s < t for two Python strings.
RECURSIVE StrLess(_, _)
StrLess(s, t) ==
    IF t = <<>> THEN FALSE
    ELSE IF s = <<>> THEN TRUE
    ELSE IF Head(s) = Head(t) THEN StrLess(Tail(s), Tail(t))
    ELSE Code(Head(s)) < Code(Head(t))

\* s[:n]
Slice(s, n) == SubSeq(s, 1, IF Len(s) < n THEN Len(s) ELSE n)

DigitChars == << "0", "1", "2", "3", "4", "5", "6", "7", "8", "9" >>

\* str(n) for a natural number, as an f-string formats it.
RECURSIVE Digits(_)
Digits(n) ==
    IF n < 10 THEN << DigitChars[n + 1] >>
    ELSE Digits(n \div 10) \o << DigitChars[(n % 10) + 1] >>

\* s.split('/')[-1]: what follows the last '/', the whole string without one.
RECURSIVE LastSegment(_)
LastSegment(s) ==
    IF s = <<>> THEN <<>>
    ELSE IF s[Len(s)] = "/" THEN <<>>
    ELSE LastSegment(SubSeq(s, 1, Len(s) - 1)) \o << s[Len(s)] >>

RECURSIVE Repeat(_, _)
Repeat(s, n) == IF n = 0 THEN <<>> ELSE s \o Repeat(s, n - 1)

\* ------------------------------------------------------------- environment
\* The scanner's configuration (AWSAccountScanner.__init__): the short name a
\* role's boundary is compared with.
target_permission_boundary == << "p", "b" >>

\* str(e) of the failures the listing service raises: a short message, and a
\* message longer than the slice the Error record keeps.
ShortMessage == << "b", "o", "o", "m" >>

LongMessage ==
    << "A", "n", " ", "e", "r", "r", "o", "r", " " >> \o Repeat(<< "x" >>, 50)

\* str(KeyError('PermissionsBoundaryArn')): a role whose PermissionsBoundary
\* entry carries no PermissionsBoundaryArn.
KeyErrorMessage ==
    << "'", "P", "e", "r", "m", "i", "s", "s", "i", "o", "n", "s", "B", "o",
       "u", "n", "d", "a", "r", "y", "A", "r", "n", "'" >>

Messages == << ShortMessage, LongMessage >>

ArnPolicy == << "a", "r", "n", ":", "p", "o", "l", "i", "c", "y", "/" >>

\* What a listed role can carry as PermissionsBoundary: nothing, an ARN, or an
\* entry without the ARN key.
Boundaries ==
    << [kind |-> "absent", arn |-> <<>>],
       [kind |-> "arn", arn |-> ArnPolicy \o << "p", "b" >>],
       [kind |-> "arn", arn |-> ArnPolicy \o << "p", "B" >>],
       [kind |-> "arn", arn |-> << "p", "b", "/", "x" >>],
       [kind |-> "arn", arn |-> << "p", "b" >>],
       [kind |-> "arn", arn |-> ArnPolicy \o << "p", "b", "/" >>],
       [kind |-> "malformed", arn |-> <<>>] >>

\* Role names are unique within an account and come in no particular order.
RoleNameAt(i) ==
    IF i % 2 = 1 THEN << "r" >> \o Digits(50 - i) ELSE << "R" >> \o Digits(i)

\* Account ids are unique, of one width, and listed in no particular order.
AccountId(i) == Digits(100 - i)

AccountName(i) == << "a", "c", "c", "t" >> \o Digits(i)

\* What the services answer for one account: whether sts.assume_role is
\* refused, the boundary of each role (an index of Boundaries), the page size
\* of list_roles, the page whose fetch fails (0: none) and the message of
\* that failure (an index of Messages).
ScenarioOf(denied, kinds, page_size, fail_page, message) ==
    [denied |-> denied, kinds |-> kinds, page_size |-> page_size,
     fail_page |-> fail_page, message |-> message]

RolesOf(sc) ==
    [i \in 1..Len(sc.kinds) |->
        [RoleName |-> RoleNameAt(i), boundary |-> Boundaries[sc.kinds[i]]]]

\* paginator.paginate(): at least one page, the last one possibly short.
NumPages(sc) ==
    IF Len(sc.kinds) = 0 THEN 1
    ELSE (Len(sc.kinds) + sc.page_size - 1) \div sc.page_size

PageOf(sc, p) ==
    LET first == (p - 1) * sc.page_size + 1
        last == IF p * sc.page_size < Len(sc.kinds)
                THEN p * sc.page_size ELSE Len(sc.kinds)
    IN SubSeq(RolesOf(sc), first, last)

\* ------------------------------------------------------ scan_account_roles
RoleInfo(account, role_name, status) ==
    [account_id |-> account.Id, account_name |-> account.Name,
     role_name |-> role_name, has_permission_boundary |-> status]

ACCESS_DENIED ==
    << "A", "C", "C", "E", "S", "S", "_", "D", "E", "N", "I", "E", "D" >>

\* The slice of str(e) the Error record keeps.
ErrorSlice == 50

\* f"NO_ROLES_WITH_BOUNDARY ({total_roles} total roles)"
MissingLabel(total_roles) ==
    << "N", "O", "_", "R", "O", "L", "E", "S", "_", "W", "I", "T", "H", "_",
       "B", "O", "U", "N", "D", "A", "R", "Y", " ", "(" >>
    \o Digits(total_roles)
    \o << " ", "t", "o", "t", "a", "l", " ", "r", "o", "l", "e", "s", ")" >>

\* f"ERROR: {str(e)[:50]}..."
ErrorLabel(message) ==
    << "E", "R", "R", "O", "R", ":", " " >> \o Slice(message, ErrorSlice)
    \o << ".", ".", "." >>

\* Mutant: the short name is compared without regard to case.
LowerChar(c) == IF c = "B" THEN "b" ELSE IF c = "P" THEN "p" ELSE c

Lower(s) == [k \in 1..Len(s) |-> LowerChar(s[k])]

BoundaryMatchesAnyCase(boundary_arn) ==
    Lower(LastSegment(boundary_arn)) = Lower(target_permission_boundary)

\* boundary_arn.split('/')[-1] == self.target_permission_boundary
BoundaryMatches(boundary_arn) ==
    LastSegment(boundary_arn) = target_permission_boundary

\* Mutant: total_roles counts only the roles that carry a boundary.
ClassifyRoleCountingBoundaries(account, loc, role) ==
    IF loc.raised THEN loc
    ELSE LET counted == [loc EXCEPT !.total_roles = @ + 1]
         IN IF role.boundary.kind = "absent" THEN loc
            ELSE IF role.boundary.kind = "malformed"
            THEN [counted EXCEPT !.raised = TRUE, !.error = KeyErrorMessage]
            ELSE IF BoundaryMatches(role.boundary.arn)
            THEN [counted EXCEPT !.roles_with_boundary =
                     Append(@, RoleInfo(account, role.RoleName, "Exists"))]
            ELSE counted

\* One turn of the inner loop over page['Roles'], on the task's locals.  A
\* raised exception leaves the locals as they were when it was raised.
ClassifyRole(account, loc, role) ==
    IF loc.raised THEN loc
    ELSE LET counted == [loc EXCEPT !.total_roles = @ + 1]
         IN IF role.boundary.kind = "absent" THEN counted
            ELSE IF role.boundary.kind = "malformed"
            THEN [counted EXCEPT !.raised = TRUE, !.error = KeyErrorMessage]
            ELSE IF BoundaryMatches(role.boundary.arn)
            THEN [counted EXCEPT !.roles_with_boundary =
                     Append(@, RoleInfo(account, role.RoleName, "Exists"))]
            ELSE counted

RECURSIVE ClassifyPage(_, _, _)
ClassifyPage(account, loc, roles) ==
    IF roles = <<>> THEN loc
    ELSE ClassifyPage(account, ClassifyRole(account, loc, Head(roles)),
                      Tail(roles))

\* The next page of paginator.paginate(): the fetch raises, or the page's
\* roles are classified.
ScanPage(account, sc, loc) ==
    IF sc.fail_page = loc.page + 1
    THEN [loc EXCEPT !.raised = TRUE, !.error = Messages[sc.message]]
    ELSE [ClassifyPage(account, loc, PageOf(sc, loc.page + 1))
             EXCEPT !.page = @ + 1]

\* Mutant: the matches found before the exception are returned beside the
\* Error record.
AccountResultsKeepingMatches(account, loc) ==
    IF loc.raised
    THEN loc.roles_with_boundary
         \o << RoleInfo(account, ErrorLabel(loc.error), "Error") >>
    ELSE IF loc.roles_with_boundary = <<>>
    THEN << RoleInfo(account, MissingLabel(loc.total_roles), "Missing") >>
    ELSE loc.roles_with_boundary

\* What scan_account_roles returns once the loop over the pages has ended or
\* an exception has reached the except clause.
AccountResults(account, loc) ==
    IF loc.raised
    THEN << RoleInfo(account, ErrorLabel(loc.error), "Error") >>
    ELSE IF loc.roles_with_boundary = <<>>
    THEN << RoleInfo(account, MissingLabel(loc.total_roles), "Missing") >>
    ELSE loc.roles_with_boundary

\* Mutant: the function returns before the ACCESS_DENIED record is appended.
NoResults(account) == <<>>

DeniedResults(account) == << RoleInfo(account, ACCESS_DENIED, "N/A") >>

\* ------------------------------------------------------------------ sorted
\* (x.account_id, x.role_name) < (y.account_id, y.role_name)
KeyLess(x, y) ==
    \/ StrLess(x.account_id, y.account_id)
    \/ x.account_id = y.account_id /\ StrLess(x.role_name, y.role_name)

\* x put behind every element of the sorted sequence that is not greater.
RECURSIVE InsertSorted(_, _)
InsertSorted(x, seq) ==
    IF seq = <<>> THEN << x >>
    ELSE IF KeyLess(x, Head(seq)) THEN << x >> \o seq
    ELSE << Head(seq) >> \o InsertSorted(x, Tail(seq))

\* Mutant: the records are written in the order they were published in.
Unsorted(seq) == seq

\* sorted(seq, key=lambda x: (x.account_id, x.role_name)): stable.
RECURSIVE Sorted(_)
Sorted(seq) ==
    IF seq = <<>> THEN <<>>
    ELSE InsertSorted(seq[Len(seq)], Sorted(SubSeq(seq, 1, Len(seq) - 1)))

\* ------------------------------------------------------------------- state
VARIABLES
    org,          \* the services' answers: the directory and each account's scenario
    max_workers,  \* the pool size scan_all_accounts was called with
    pc,           \* where the main thread is
    accounts,     \* what get_all_active_accounts returned
    submitted,    \* how many futures executor.submit has created
    task,         \* per submitted account: the worker's position and locals
    results,      \* self.results
    lock,         \* self.lock: 0 when free, else the task holding it
    completed,    \* the progress bar's counter (progress.update advance=1)
    yielded,      \* how many futures as_completed has handed to the loop
    display,      \* what the live display read at its last refresh
    table,        \* the rows of create_results_table
    summary,      \* the summary counters
    csv,          \* the rows save_to_csv wrote
    ret,          \* what scan_all_accounts returned
    verdict,      \* which message main or the __main__ block printed
    exc,          \* the exception travelling up the main thread, if any
    handled,      \* the futures as_completed has handed to the loop
    logged,       \* the accounts whose "Error processing account" was printed
    clock,        \* time.time() in whole seconds
    run           \* how many times scan_all_accounts was called on the scanner

vars ==
    << org, max_workers, pc, accounts, submitted, task, results, lock,
       completed, yielded, display, table, summary, csv, ret, verdict,
       exc, handled, logged, clock, run >>

NoLocals ==
    [page |-> 0, total_roles |-> 0, roles_with_boundary |-> <<>>,
     raised |-> FALSE, error |-> <<>>]

NewTask ==
    [pc |-> "unsubmitted", loc |-> NoLocals, account_results |-> <<>>,
     assume_calls |-> 0, list_calls |-> 0, session_name |-> <<>>]

\* No exception is travelling up the main thread.  Of one that is: its kind,
\* where the main thread was when it arrived, and the tasks that were queued
\* and those not yet submitted then.
NoException == [kind |-> "none", at |-> "none", queued |-> {}, unsubmitted |-> {}]

Unset == [kind |-> "unset", records |-> <<>>]

None == [kind |-> "None", records |-> <<>>]

ListOf(records) == [kind |-> "list", records |-> records]

Tasks == 1..Len(accounts)

Scenario(i) ==
    LET e == CHOOSE e \in 1..Len(org.entries) :
                 AccountId(e) = accounts[i].Id
    IN org.entries[e].scenario

Running == {i \in Tasks : task[i].pc \in {"assume", "list", "scanned", "locked"}}

\* The futures that are done: worker returned, or raised.
Done == {i \in Tasks : task[i].pc \in {"done", "raised"}}

\* The accounts that have a record in a sequence of records.
Published(records) == {records[k].account_id : k \in 1..Len(records)}

\* The records of one account in a sequence of records, in their order.
RECURSIVE GroupOf(_, _)
GroupOf(records, id) ==
    IF records = <<>> THEN <<>>
    ELSE IF Head(records).account_id = id
    THEN << Head(records) >> \o GroupOf(Tail(records), id)
    ELSE GroupOf(Tail(records), id)

\* The state after AWSAccountScanner.__init__, before scan_all_accounts.
Fresh ==
    /\ pc = "start"
    /\ accounts = <<>>
    /\ submitted = 0
    /\ task = <<>>
    /\ results = <<>>
    /\ lock = 0
    /\ completed = 0
    /\ yielded = 0
    /\ display = [completed |-> 0, records |-> 0]
    /\ table = <<>>
    /\ summary = [total_accounts |-> 0, accessible_accounts |-> 0,
                  total_results |-> 0, roles_with_boundary |-> 0]
    /\ csv = Unset
    /\ ret = Unset
    /\ verdict = "none"
    /\ exc = NoException
    /\ handled = {}
    /\ logged = {}
    /\ clock = 0
    /\ run = 1

\* ------------------------------------------------------------- main thread
\* if account['Status'] == 'ACTIVE': accounts.append({'Id', 'Name', ...}),
\* from directory entry e on.
RECURSIVE KeepActive(_)
KeepActive(e) ==
    IF e > Len(org.entries) THEN <<>>
    ELSE IF org.entries[e].active
    THEN << [Id |-> AccountId(e), Name |-> AccountName(e)] >> \o KeepActive(e + 1)
    ELSE KeepActive(e + 1)

\* Mutant: the except clause returns the accounts gathered so far.
ActiveAccountsDespiteFailure == KeepActive(1)

\* The ACTIVE accounts of the directory in its order, or [] when the listing
\* raises on any page.
ActiveAccounts == IF org.fails THEN <<>> ELSE KeepActive(1)

\* scan_all_accounts up to the pool: the accounts are fetched; with none, it
\* returns (None) at once.
get_all_active_accounts ==
    /\ pc = "start"
    /\ accounts' = ActiveAccounts
    /\ task' = [i \in 1..Len(ActiveAccounts) |-> NewTask]
    /\ IF ActiveAccounts = <<>>
       THEN pc' = "main" /\ ret' = None
       ELSE pc' = "submit" /\ ret' = ret
    /\ UNCHANGED << exc, handled, logged, clock, run >>
    /\ UNCHANGED << org, max_workers, submitted, results, lock, completed,
                    yielded, display, table, summary, csv, verdict >>

\* executor.submit(self.worker, account, progress, task), one account after
\* the other in the directory's order.
Submit ==
    /\ pc = "submit"
    /\ submitted' = submitted + 1
    /\ task' = [task EXCEPT ![submitted + 1].pc = "queued"]
    /\ pc' = IF submitted + 1 = Len(accounts) THEN "wait" ELSE "submit"
    /\ UNCHANGED << exc, handled, logged, clock, run >>
    /\ UNCHANGED << org, max_workers, accounts, results, lock, completed,
                    yielded, display, table, summary, csv, ret, verdict >>

\* Mutant: future.result() is called outside a try block; what worker raised
\* leaves the loop and the executor's with block.
AsCompletedUncaught ==
    /\ pc = "wait"
    /\ \E i \in Done \ handled :
         /\ handled' = handled \cup {i}
         /\ exc' = IF task[i].pc = "raised"
                   THEN [kind |-> "Exception", at |-> pc,
                         queued |-> {}, unsubmitted |-> {}]
                   ELSE exc
         /\ pc' = IF task[i].pc = "raised" THEN "shutdown" ELSE pc
    /\ yielded' = yielded + 1
    /\ UNCHANGED << logged, clock, run >>
    /\ UNCHANGED << org, max_workers, accounts, submitted, task, results,
                    lock, completed, display, table, summary, csv, ret,
                    verdict >>

\* for future in as_completed(futures): future.result() returns, or raises
\* what worker raised, which the except clause prints for the account.
AsCompleted ==
    /\ pc = "wait"
    /\ \E i \in Done \ handled :
         /\ handled' = handled \cup {i}
         /\ logged' = IF task[i].pc = "raised" THEN logged \cup {i} ELSE logged
    /\ yielded' = yielded + 1
    /\ UNCHANGED << exc, clock, run >>
    /\ UNCHANGED << org, max_workers, pc, accounts, submitted, task, results,
                    lock, completed, display, table, summary, csv, ret,
                    verdict >>

\* Mutant: the pool is left as soon as one future is done (no join).
AnyFutureDone == yielded >= 1

\* The loop over as_completed ends when every future has been handed out,
\* and leaving the executor's with block joins its threads.
AllFuturesDone == yielded = Len(accounts) /\ Running = {}

ExitPool ==
    /\ pc = "wait"
    /\ AllFuturesDone
    /\ pc' = "table"
    /\ UNCHANGED << exc, handled, logged, clock, run >>
    /\ UNCHANGED << org, max_workers, accounts, submitted, task, results,
                    lock, completed, yielded, display, table, summary, csv,
                    ret, verdict >>

\* ----------------------------------------------------------- worker threads
\* Mutant: a thread is spawned for every submitted task.
ThreadPerTask == TRUE

\* Mutant: the pool keeps one of its max_workers threads back.
PoolKeepsOneThreadBack == Cardinality(Running) < max_workers - 1

\* ThreadPoolExecutor(max_workers=max_workers): a task is taken only by one
\* of the pool's max_workers threads, each running one task at a time.
PoolHasIdleThread == Cardinality(Running) < max_workers

\* A pool thread takes the oldest queued task.
Start(i) ==
    /\ task[i].pc = "queued"
    /\ \A j \in Tasks : j < i => task[j].pc # "queued"
    /\ PoolHasIdleThread
    /\ task' = [task EXCEPT ![i].pc = "assume"]
    /\ UNCHANGED << exc, handled, logged, clock, run >>
    /\ UNCHANGED << org, max_workers, pc, accounts, submitted, results, lock,
                    completed, yielded, display, table, summary, csv, ret,
                    verdict >>

\* RoleSessionName=f"permission-boundary-scan-{int(time.time())}"
SessionName(seconds) ==
    << "p", "e", "r", "m", "i", "s", "s", "i", "o", "n", "-", "b", "o", "u",
       "n", "d", "a", "r", "y", "-", "s", "c", "a", "n", "-" >>
    \o Digits(seconds)

\* Mutant: the "return account_results" after the ACCESS_DENIED record is
\* missing, and the task goes on to the listing.
assume_role_then_list(i) ==
    /\ task[i].pc = "assume"
    /\ task' =
         [task EXCEPT
            ![i].assume_calls = @ + 1,
            ![i].session_name = SessionName(clock),
            ![i].pc = "list",
            ![i].account_results =
                IF Scenario(i).denied THEN DeniedResults(accounts[i]) ELSE @]
    /\ UNCHANGED << exc, handled, logged, clock, run >>
    /\ UNCHANGED << org, max_workers, pc, accounts, submitted, results, lock,
                    completed, yielded, display, table, summary, csv, ret,
                    verdict >>

\* assume_role_in_account and what scan_account_roles does with its answer:
\* None (any exception of sts.assume_role) gives the ACCESS_DENIED record and
\* returns; a session goes on to the listing.
assume_role_in_account(i) ==
    /\ task[i].pc = "assume"
    /\ task' =
         [task EXCEPT
            ![i].assume_calls = @ + 1,
            ![i].session_name = SessionName(clock),
            ![i].pc = IF Scenario(i).denied THEN "scanned" ELSE "list",
            ![i].account_results =
                IF Scenario(i).denied THEN DeniedResults(accounts[i]) ELSE @]
    /\ UNCHANGED << exc, handled, logged, clock, run >>
    /\ UNCHANGED << org, max_workers, pc, accounts, submitted, results, lock,
                    completed, yielded, display, table, summary, csv, ret,
                    verdict >>

\* Mutant: an account whose listing failed is attempted a second time.
list_roles_retrying(i) ==
    /\ task[i].pc = "list"
    /\ LET loc == ScanPage(accounts[i], Scenario(i), task[i].loc)
           ended == loc.raised \/ loc.page = NumPages(Scenario(i))
           again == loc.raised /\ task[i].assume_calls < 2
       IN task' =
            [task EXCEPT
               ![i].list_calls = @ + 1,
               ![i].loc = IF again THEN NoLocals ELSE loc,
               ![i].pc = IF again THEN "assume"
                         ELSE IF ended THEN "scanned" ELSE "list",
               ![i].account_results =
                   IF ended /\ ~again THEN AccountResults(accounts[i], loc)
                   ELSE @]
    /\ UNCHANGED << exc, handled, logged, clock, run >>
    /\ UNCHANGED << org, max_workers, pc, accounts, submitted, results, lock,
                    completed, yielded, display, table, summary, csv, ret,
                    verdict >>

\* One page of list_roles is fetched and classified.  After the last page,
\* or when an exception is raised, scan_account_roles builds its return
\* value.
list_roles(i) ==
    /\ task[i].pc = "list"
    /\ LET loc == ScanPage(accounts[i], Scenario(i), task[i].loc)
           ended == loc.raised \/ loc.page = NumPages(Scenario(i))
       IN task' =
            [task EXCEPT
               ![i].list_calls = @ + 1,
               ![i].loc = loc,
               ![i].pc = IF ended THEN "scanned" ELSE "list",
               ![i].account_results =
                   IF ended THEN AccountResults(accounts[i], loc) ELSE @]
    /\ UNCHANGED << exc, handled, logged, clock, run >>
    /\ UNCHANGED << org, max_workers, pc, accounts, submitted, results, lock,
                    completed, yielded, display, table, summary, csv, ret,
                    verdict >>

\* Mutant: the progress bar is advanced before the records are appended.
UpdateBeforeExtend == << "update", "extend" >>

\* The statements of worker's "with self.lock:" block, in their order.
WithLockBody == << "extend", "update" >>

\* Mutant: the records are appended by both statements of the block.
ResultsAfterEitherStatement(stmt, i) == results \o task[i].account_results

\* self.results.extend(results) / progress.update(task_id, advance=1)
ResultsAfter(stmt, i) ==
    IF stmt = "extend" THEN results \o task[i].account_results ELSE results

CompletedAfter(stmt) ==
    IF stmt = "update" THEN completed + 1 ELSE completed

\* The worker takes the lock and runs the block's first statement.
WorkerEnter(i) ==
    /\ task[i].pc = "scanned"
    /\ lock = 0
    /\ lock' = i
    /\ results' = ResultsAfter(WithLockBody[1], i)
    /\ completed' = CompletedAfter(WithLockBody[1])
    /\ task' = [task EXCEPT ![i].pc = "locked"]
    /\ UNCHANGED << exc, handled, logged, clock, run >>
    /\ UNCHANGED << org, max_workers, pc, accounts, submitted, yielded,
                    display, table, summary, csv, ret, verdict >>

\* The worker runs the block's second statement, frees the lock and returns:
\* its future is done.
WorkerLeave(i) ==
    /\ task[i].pc = "locked"
    /\ lock = i
    /\ lock' = 0
    /\ results' = ResultsAfter(WithLockBody[2], i)
    /\ completed' = CompletedAfter(WithLockBody[2])
    /\ task' = [task EXCEPT ![i].pc = "done"]
    /\ UNCHANGED << exc, handled, logged, clock, run >>
    /\ UNCHANGED << org, max_workers, pc, accounts, submitted, yielded,
                    display, table, summary, csv, ret, verdict >>

\* progress.update raises inside the with block: the lock is released, the
\* counter is not advanced, and the exception leaves worker: its future is
\* done and holds the exception.
WorkerRaise(i) ==
    /\ task[i].pc = "locked"
    /\ lock = i
    /\ WithLockBody[2] = "update"
    /\ lock' = 0
    /\ task' = [task EXCEPT ![i].pc = "raised"]
    /\ UNCHANGED << exc, handled, logged, clock, run >>
    /\ UNCHANGED << org, max_workers, pc, accounts, submitted, results,
                    completed, yielded, display, table, summary, csv, ret,
                    verdict >>

\* The refresh thread of the Progress display, alive inside its with block.
\* It takes no self.lock: it can run in any state of the pool, and display is
\* the pair as a reader without the lock finds it then (the bar renders the
\* counter), read in one step.
Refresh ==
    /\ pc \in {"submit", "wait", "shutdown"}
    /\ display' = [completed |-> completed,
                   records |-> Cardinality(Published(results))]
    /\ UNCHANGED << exc, handled, logged, clock, run >>
    /\ UNCHANGED << org, max_workers, pc, accounts, submitted, task, results,
                    lock, completed, yielded, table, summary, csv, ret,
                    verdict >>

\* ------------------------------------------------------- after the pool
\* The widths at which create_results_table cuts a name.
NameWidth == 24

RoleWidth == 39

\* s[:n] + "..." if len(s) > n else s
Cell(s, n) == IF Len(s) > n THEN Slice(s, n) \o << ".", ".", "." >> ELSE s

\* The rows create_results_table adds for its sorted_results, in the order it
\* adds them.
RowsOf(sorted_results) ==
    [k \in 1..Len(sorted_results) |->
        [account_id |-> sorted_results[k].account_id,
         account_name |-> Cell(sorted_results[k].account_name, NameWidth),
         role_name |-> Cell(sorted_results[k].role_name, RoleWidth),
         has_permission_boundary |->
             sorted_results[k].has_permission_boundary]]

\* sorted_results = sorted(self.results, ...), computed once, and its rows.
TableRows ==
    CHOOSE rows \in {RowsOf(sorted_results) :
                        sorted_results \in {Sorted(results)}} : TRUE

create_results_table ==
    /\ pc = "table"
    /\ table' = TableRows
    /\ pc' = "summary"
    /\ UNCHANGED << exc, handled, logged, clock, run >>
    /\ UNCHANGED << org, max_workers, accounts, submitted, task, results,
                    lock, completed, yielded, display, summary, csv, ret,
                    verdict >>

\* len([r for r in self.results if r.has_permission_boundary == "Exists"])
CountExists(records) ==
    Cardinality({k \in 1..Len(records) :
                    records[k].has_permission_boundary = "Exists"})

\* len([r for r in self.results if r.has_permission_boundary != "N/A"])
CountAccessible(records) ==
    Cardinality({k \in 1..Len(records) :
                    records[k].has_permission_boundary # "N/A"})

\* The summary statistics scan_all_accounts prints.
Summarize ==
    /\ pc = "summary"
    /\ summary' =
         [total_accounts |-> Len(accounts),
          accessible_accounts |->
              CountAccessible(results),
          total_results |-> Len(results),
          roles_with_boundary |-> CountExists(results)]
    /\ pc' = "csv"
    /\ UNCHANGED << exc, handled, logged, clock, run >>
    /\ UNCHANGED << org, max_workers, accounts, submitted, task, results,
                    lock, completed, yielded, display, table, csv, ret,
                    verdict >>

\* save_to_csv writes the sorted records, or catches the failure of the
\* write and returns None.
save_to_csv ==
    /\ pc = "csv"
    /\ \/ csv' = ListOf(Sorted(results))
       \/ csv' = None
    /\ pc' = "return"
    /\ UNCHANGED << exc, handled, logged, clock, run >>
    /\ UNCHANGED << org, max_workers, accounts, submitted, task, results,
                    lock, completed, yielded, display, table, summary, ret,
                    verdict >>

\* return self.results
Return ==
    /\ pc = "return"
    /\ ret' = ListOf(results)
    /\ pc' = "main"
    /\ UNCHANGED << exc, handled, logged, clock, run >>
    /\ UNCHANGED << org, max_workers, accounts, submitted, task, results,
                    lock, completed, yielded, display, table, summary, csv,
                    verdict >>

\* "if results:" of main: None and the empty list are false.
Truthy(value) == value.kind = "list" /\ value.records # <<>>

main ==
    /\ pc = "main"
    /\ verdict' = IF Truthy(ret) THEN "completed" ELSE "failed"
    /\ pc' = "exit"
    /\ UNCHANGED << exc, handled, logged, clock, run >>
    /\ UNCHANGED << org, max_workers, accounts, submitted, task, results,
                    lock, completed, yielded, display, table, summary, csv,
                    ret >>

\* ---------------------------------------------------------------- interrupt
\* The pool's work queue is empty and none of its threads runs a task.
PoolIdle == Running = {}

\* ThreadPoolExecutor.__exit__ is shutdown(wait=True): no future is
\* cancelled, the threads run what is in the work queue and are joined.
PoolDrained == PoolIdle /\ \A i \in Tasks : task[i].pc # "queued"

\* Ctrl-C: KeyboardInterrupt is raised in the main thread, wherever it is in
\* scan_all_accounts or main.  Inside the executor's with block the exception
\* first leaves that block.
Interrupt ==
    /\ exc.kind = "none"
    /\ pc \notin {"exit", "shutdown", "propagate"}
    /\ exc' = [kind |-> "KeyboardInterrupt",
               at |-> pc,
               queued |-> {i \in Tasks : task[i].pc = "queued"},
               unsubmitted |-> {i \in Tasks : task[i].pc = "unsubmitted"}]
    /\ pc' = IF pc \in {"submit", "wait"} THEN "shutdown" ELSE "propagate"
    /\ UNCHANGED << handled, logged, clock, run >>
    /\ UNCHANGED << org, max_workers, accounts, submitted, task, results,
                    lock, completed, yielded, display, table, summary, csv,
                    ret, verdict >>

\* The exception leaves the executor's with block once the pool has shut
\* down, then the Progress block and scan_all_accounts.
ExecutorExit ==
    /\ pc = "shutdown"
    /\ PoolDrained
    /\ pc' = "propagate"
    /\ UNCHANGED << exc, handled, logged, clock, run >>
    /\ UNCHANGED << org, max_workers, accounts, submitted, task, results,
                    lock, completed, yielded, display, table, summary, csv,
                    ret, verdict >>

\* except KeyboardInterrupt: "Scan interrupted by user" /
\* except Exception: "Unexpected error"
dunder_main ==
    /\ pc = "propagate"
    /\ verdict' = IF exc.kind = "KeyboardInterrupt" THEN "interrupted"
                  ELSE "unexpected"
    /\ pc' = "exit"
    /\ UNCHANGED << exc, handled, logged, clock, run >>
    /\ UNCHANGED << org, max_workers, accounts, submitted, task, results,
                    lock, completed, yielded, display, table, summary, csv,
                    ret >>

\* ------------------------------------------------------------ specification
Denied == ScenarioOf(TRUE, <<>>, 1, 0, 1)

\* Two pages, two matching roles out of name order.
Matching == ScenarioOf(FALSE, << 2, 1, 5 >>, 2, 0, 1)

\* One page, no matching role.
NotMatching == ScenarioOf(FALSE, << 1, 3 >>, 2, 0, 1)

\* The second page's fetch fails after the first page held a match.
Failing == ScenarioOf(FALSE, << 2, 1, 2 >>, 2, 2, 2)

\* One page: a match, then a role whose boundary entry lacks its ARN, then a
\* match that is never reached.
Malformed == ScenarioOf(FALSE, << 2, 7, 2 >>, 3, 0, 1)

\* The scenarios of the runs over several accounts.
CoreScenarios == {Denied, Matching, NotMatching, Failing, Malformed}

\* The largest page size of list_roles in the single-account runs.
MaxPageSize == 2

\* More roles than one digit counts, none with a boundary.
ManyRoles == ScenarioOf(FALSE, [i \in 1..12 |-> 1], 5, 0, 1)

Entry(scenario) == [active |-> TRUE, scenario |-> scenario]

Inactive == [active |-> FALSE, scenario |-> Denied]

Directories(scenarios, sizes) ==
    UNION {[1..n -> {Inactive} \cup {Entry(sc) : sc \in scenarios}] : n \in sizes}

\* A run over a directory of up to MaxAccounts accounts with a pool of up to
\* MaxWorkers threads; the directory listing may fail.
Init ==
    /\ org \in
         {[fails |-> FALSE, entries |-> e] :
             e \in Directories(CoreScenarios, 0..MaxAccounts)}
         \cup {[fails |-> TRUE, entries |-> e] :
             e \in Directories(CoreScenarios, 0..1)}
    /\ max_workers \in 1..MaxWorkers
    /\ Fresh

\* A run over one account, whatever its roles and the services' failures:
\* every listing of up to MaxRoles roles over Boundaries, every page size,
\* every page whose fetch may fail.
InitScan ==
    /\ \/ \E sc \in {Denied, ManyRoles} :
            org = [fails |-> FALSE, entries |-> << Entry(sc) >>]
       \/ \E n \in 0..MaxRoles :
            \E kinds \in [1..n -> 1..Len(Boundaries)] :
              \E size \in 1..MaxPageSize :
                \E page \in 0..NumPages(ScenarioOf(FALSE, kinds, size, 0, 1)) :
                  \E message \in IF page = 0 THEN {1} ELSE 1..Len(Messages) :
                    org = [fails |-> FALSE,
                           entries |-> << Entry(ScenarioOf(FALSE, kinds, size,
                                                           page, message)) >>]
    /\ max_workers = 1
    /\ Fresh

Next ==
    \/ get_all_active_accounts
    \/ Submit
    \/ \E i \in Tasks : Start(i)
    \/ \E i \in Tasks : assume_role_in_account(i)
    \/ \E i \in Tasks : list_roles(i)
    \/ \E i \in Tasks : WorkerEnter(i)
    \/ \E i \in Tasks : WorkerLeave(i)
    \/ Refresh
    \/ AsCompleted
    \/ ExitPool
    \/ create_results_table
    \/ Summarize
    \/ save_to_csv
    \/ Return
    \/ main

Spec == Init /\ [][Next]_vars

SpecScan == InitScan /\ [][Next]_vars

\* The run, with a Ctrl-C at any moment of it.
NextInterrupt ==
    \/ Next
    \/ Interrupt
    \/ ExecutorExit
    \/ dunder_main

SpecInterrupt == Init /\ [][NextInterrupt]_vars

\* The run, with a progress.update that may raise in any worker.
NextEscape ==
    \/ Next
    \/ \E i \in Tasks : WorkerRaise(i)

SpecEscape == Init /\ [][NextEscape]_vars

\* A second of wall-clock time passes.
Tick ==
    /\ clock < MaxClock
    /\ clock' = clock + 1
    /\ UNCHANGED << exc, handled, logged, run >>
    /\ UNCHANGED << org, max_workers, pc, accounts, submitted, task, results,
                    lock, completed, yielded, display, table, summary, csv,
                    ret, verdict >>

\* The run, with time passing.
NextClock ==
    \/ Next
    \/ Tick

SpecClock == Init /\ [][NextClock]_vars

\* scan_all_accounts is called again on the same scanner once it has
\* returned: its locals and the Progress display are new, self.results is
\* the list __init__ created.
ScanAgain ==
    /\ pc = "main"
    /\ run < MaxRuns
    /\ run' = run + 1
    /\ pc' = "start"
    /\ accounts' = <<>>
    /\ submitted' = 0
    /\ task' = <<>>
    /\ completed' = 0
    /\ yielded' = 0
    /\ handled' = {}
    /\ logged' = {}
    /\ display' = [completed |-> 0, records |-> Cardinality(Published(results))]
    /\ ret' = Unset
    /\ UNCHANGED << org, max_workers, results, lock, table, summary, csv,
                    verdict, exc, clock >>

\* A caller that runs scan_all_accounts up to MaxRuns times on one scanner.
NextRerun ==
    \/ Next
    \/ ScanAgain

SpecRerun == Init /\ [][NextRerun]_vars

\* The steps of the main thread.
MainThread ==
    \/ get_all_active_accounts
    \/ Submit
    \/ AsCompleted
    \/ ExitPool
    \/ create_results_table
    \/ Summarize
    \/ save_to_csv
    \/ Return
    \/ main

\* The steps of the pool thread that runs task i.
Worker(i) ==
    /\ i \in Tasks
    /\ \/ Start(i)
       \/ assume_role_in_account(i)
       \/ list_roles(i)
       \/ WorkerEnter(i)
       \/ WorkerLeave(i)

\* The run when no thread that can take a step is held back for ever: the
\* main thread goes on, an idle pool thread takes the oldest queued task,
\* every call of sts and iam returns or raises, and a worker waiting for the
\* lock gets it once it stays free.
SpecFair ==
    /\ Init
    /\ [][Next]_vars
    /\ WF_vars(MainThread)
    /\ \A i \in 1..MaxAccounts : WF_vars(Worker(i))

\* ------------------------------------------------------------------ claims
Sentinels == {"Missing", "N/A", "Error"}

Returned(i) == task[i].pc \in {"scanned", "locked", "done"}

\* scan_all_accounts has returned self.results.
RunFinished == ret.kind = "list"

\* Only Exists records, at least one; or one sentinel record and nothing else.
WellShaped(group) ==
    \/ /\ Len(group) >= 1
       /\ \A k \in 1..Len(group) : group[k].has_permission_boundary = "Exists"
    \/ /\ Len(group) = 1
       /\ group[1].has_permission_boundary \in Sentinels

\* C1: once scan_all_accounts has finished a run over a non-empty account
\* set, the records of every dispatched account in self.results are one or
\* more Exists records or exactly one sentinel record (Missing, N/A, Error):
\* never none, never a sentinel beside Exists records.
C1_OneRecordSetPerAccount ==
    RunFinished =>
        \A i \in Tasks : WellShaped(GroupOf(results, accounts[i].Id))

\* A finished run with an account of two Exists records and an account of one
\* sentinel.
C1_Witness ==
    /\ RunFinished
    /\ \E i, j \in Tasks :
         /\ Len(GroupOf(results, accounts[i].Id)) = 2
         /\ GroupOf(results, accounts[i].Id)[1].has_permission_boundary = "Exists"
         /\ GroupOf(results, accounts[j].Id)[1].has_permission_boundary \in Sentinels

\* The main thread has left the executor's with block of a run that had
\* accounts.
LeftPool == pc \notin {"start", "submit", "wait"} /\ accounts # <<>>

\* C2: when scan_all_accounts leaves the worker pool, whatever the number of
\* accounts and the pool size, every account's task is done and has published
\* its records: self.results holds one record group per account, the one its
\* task returned, and the progress counter equals the number of accounts.
C2_AllPublishedAtPoolExit ==
    LeftPool =>
        /\ \A i \in Tasks :
             /\ task[i].pc = "done"
             /\ task[i].account_results # <<>>
             /\ GroupOf(results, accounts[i].Id) = task[i].account_results
        /\ Cardinality(Published(results)) = Len(accounts)
        /\ completed = Len(accounts)
        /\ lock = 0

\* The pool is left with more accounts than pool threads.
C2_Witness ==
    /\ pc = "table"
    /\ max_workers < Len(accounts)
    /\ completed = Len(accounts)

\* C3: when the credential exchange of an account is refused,
\* scan_account_roles returns exactly one record, ACCESS_DENIED with status
\* N/A, and list_roles is never called for that account.
C3_DeniedGivesOneSentinel ==
    \A i \in Tasks :
        Scenario(i).denied =>
            /\ task[i].list_calls = 0
            /\ task[i].pc # "list"
            /\ Returned(i) =>
                 task[i].account_results =
                     << [account_id |-> accounts[i].Id,
                         account_name |-> accounts[i].Name,
                         role_name |->
                             << "A", "C", "C", "E", "S", "S", "_",
                                "D", "E", "N", "I", "E", "D" >>,
                         has_permission_boundary |-> "N/A"] >>

\* A refused account has returned while another account has been listed.
C3_Witness ==
    \E i, j \in Tasks :
        /\ Scenario(i).denied
        /\ task[i].assume_calls = 1
        /\ Returned(i)
        /\ task[j].list_calls > 0

\* The credential exchange succeeds and the listing is paged to its end with
\* every role well-formed.
CompletesCleanly(sc) ==
    /\ ~sc.denied
    /\ sc.fail_page = 0
    /\ \A k \in 1..Len(sc.kinds) : Boundaries[sc.kinds[k]].kind # "malformed"

\* The ARN is the target name itself or ends with "/" and the target name (a
\* name without "/"), letter case included.
EndsWithTarget(arn) ==
    LET t == target_permission_boundary
    IN \/ arn = t
       \/ /\ Len(arn) > Len(t)
          /\ arn[Len(arn) - Len(t)] = "/"
          /\ SubSeq(arn, Len(arn) - Len(t) + 1, Len(arn)) = t

IsTargetRole(role) ==
    role.boundary.kind = "arn" /\ EndsWithTarget(role.boundary.arn)

TargetRoles(sc) == SelectSeq(RolesOf(sc), IsTargetRole)

\* C4: for an account whose credential exchange succeeds and whose listing
\* completes without failure, the returned records are exactly one Exists
\* record per listed role whose boundary reference is present and whose last
\* '/'-separated segment equals the target name, case included; other roles
\* give no record, and with a match there is no sentinel record.
C4_ExistsPerMatchingRole ==
    \A i \in Tasks :
        (Returned(i) /\ CompletesCleanly(Scenario(i))) =>
            LET want == TargetRoles(Scenario(i))
                got == task[i].account_results
            IN /\ want # <<>> =>
                    /\ Len(got) = Len(want)
                    /\ \A k \in 1..Len(want) :
                         got[k] = [account_id |-> accounts[i].Id,
                                   account_name |-> accounts[i].Name,
                                   role_name |-> want[k].RoleName,
                                   has_permission_boundary |-> "Exists"]
               /\ want = <<>> =>
                    \A k \in 1..Len(got) :
                        got[k].has_permission_boundary # "Exists"

\* An account with a matching role, a role whose boundary differs in case
\* only and a role without boundary has returned one record.
C4_Witness ==
    \E i \in Tasks :
        /\ Returned(i)
        /\ CompletesCleanly(Scenario(i))
        /\ {Scenario(i).kinds[k] : k \in 1..Len(Scenario(i).kinds)} = {1, 2, 3}
        /\ Len(task[i].account_results) = 1
        /\ task[i].account_results[1].has_permission_boundary = "Exists"

IsDigit(c) == c \in {DigitChars[d] : d \in 1..10}

\* The number a string of decimal digits writes.
RECURSIVE DecimalValue(_)
DecimalValue(s) ==
    IF s = <<>> THEN 0
    ELSE 10 * DecimalValue(SubSeq(s, 1, Len(s) - 1))
         + (CHOOSE d \in 0..9 : DigitChars[d + 1] = s[Len(s)])

\* C5: for an account whose credential exchange succeeds and whose listing
\* completes with no role matching the target, scan_account_roles returns
\* exactly one record, of status Missing, whose role_name carries the number
\* of roles listed over all pages; no record exists before the last page has
\* been consumed.
C5_MissingCarriesTotal ==
    \A i \in Tasks :
        /\ task[i].pc = "list" => task[i].account_results = <<>>
        /\ ( /\ Returned(i)
             /\ CompletesCleanly(Scenario(i))
             /\ TargetRoles(Scenario(i)) = <<>> ) =>
               /\ Len(task[i].account_results) = 1
               /\ task[i].account_results[1].has_permission_boundary = "Missing"
               /\ task[i].account_results[1].account_id = accounts[i].Id
               /\ SelectSeq(task[i].account_results[1].role_name, IsDigit) # <<>>
               /\ DecimalValue(SelectSeq(task[i].account_results[1].role_name,
                                         IsDigit))
                    = Len(Scenario(i).kinds)

\* An account of twelve roles on three pages, none matching, has returned.
C5_Witness ==
    \E i \in Tasks :
        /\ Returned(i)
        /\ Len(Scenario(i).kinds) = 12
        /\ task[i].list_calls = 3
        /\ task[i].account_results[1].has_permission_boundary = "Missing"

\* The listing of the account raises somewhere: a page's fetch fails or a
\* role is malformed.
FailsSomewhere(sc) ==
    /\ ~sc.denied
    /\ \/ sc.fail_page # 0
       \/ \E k \in 1..Len(sc.kinds) : Boundaries[sc.kinds[k]].kind = "malformed"

\* "ERROR: ", at most fifty characters from the start of a raised message,
\* and "...".
IsErrorName(name) ==
    /\ Len(name) >= 10
    /\ SubSeq(name, 1, 7) = << "E", "R", "R", "O", "R", ":", " " >>
    /\ SubSeq(name, Len(name) - 2, Len(name)) = << ".", ".", "." >>
    /\ Len(name) - 10 <= 50
    /\ \E m \in {ShortMessage, LongMessage, KeyErrorMessage} :
         /\ Len(name) - 10 <= Len(m)
         /\ Len(name) - 10 < 50 => Len(name) - 10 = Len(m)
         /\ SubSeq(name, 8, Len(name) - 3) = SubSeq(m, 1, Len(name) - 10)

\* What the accounts that do not fail must return, written out by hand.
Expected(account, sc) ==
    IF sc = Denied
    THEN << [account_id |-> account.Id, account_name |-> account.Name,
             role_name |-> << "A", "C", "C", "E", "S", "S", "_", "D", "E",
                              "N", "I", "E", "D" >>,
             has_permission_boundary |-> "N/A"] >>
    ELSE IF sc = Matching
    THEN << [account_id |-> account.Id, account_name |-> account.Name,
             role_name |-> << "r", "4", "9" >>,
             has_permission_boundary |-> "Exists"],
            [account_id |-> account.Id, account_name |-> account.Name,
             role_name |-> << "r", "4", "7" >>,
             has_permission_boundary |-> "Exists"] >>
    ELSE << [account_id |-> account.Id, account_name |-> account.Name,
             role_name |->
                 << "N", "O", "_", "R", "O", "L", "E", "S", "_", "W", "I",
                    "T", "H", "_", "B", "O", "U", "N", "D", "A", "R", "Y",
                    " ", "(", "2", " ", "t", "o", "t", "a", "l", " ", "r",
                    "o", "l", "e", "s", ")" >>,
             has_permission_boundary |-> "Missing"] >>

\* C6: when the listing or classification of an account fails after a
\* successful credential exchange, also after pages and matching roles were
\* processed, scan_account_roles returns exactly one record, of status Error,
\* named by the truncated error description; the matches found before the
\* failure are not returned, and every other account's records are what they
\* are without the failure.
C6_FailureGivesOneErrorRecord ==
    \A i \in Tasks :
        /\ (Returned(i) /\ FailsSomewhere(Scenario(i))) =>
             /\ Len(task[i].account_results) = 1
             /\ task[i].account_results[1].has_permission_boundary = "Error"
             /\ task[i].account_results[1].account_id = accounts[i].Id
             /\ IsErrorName(task[i].account_results[1].role_name)
        /\ (Returned(i) /\ ~FailsSomewhere(Scenario(i))) =>
             task[i].account_results = Expected(accounts[i], Scenario(i))
        /\ task[i].pc = "done" =>
             GroupOf(results, accounts[i].Id) = task[i].account_results

\* An account has failed on its second page after a match on the first, its
\* Error name cut to fifty characters, and an account that started after it
\* has published its two Exists records.
C6_Witness ==
    \E i, j \in Tasks :
        /\ i < j
        /\ FailsSomewhere(Scenario(i))
        /\ task[i].pc = "done"
        /\ task[i].loc.roles_with_boundary # <<>>
        /\ task[i].loc.page = 1
        /\ Len(task[i].account_results[1].role_name) = 60
        /\ task[j].pc = "done"
        /\ Len(GroupOf(results, accounts[j].Id)) = 2

\* C7: the record sequence scan_all_accounts returns is sorted ascending by
\* (account_id, role_name), whatever order the accounts completed in.
C7_ReturnedRecordsSorted ==
    RunFinished =>
        \A k \in 1..(Len(ret.records) - 1) :
            ~KeyLess(ret.records[k + 1], ret.records[k])

\* The directory listing fails or lists no ACTIVE account.
NoAccountListed ==
    org.fails \/ \A e \in 1..Len(org.entries) : ~org.entries[e].active

C9_CounterNeverAhead == completed <= Cardinality(Published(results))

\* A second worker holds the lock with its records appended and the counter
\* not yet advanced.
C9_Witness ==
    /\ lock # 0
    /\ completed = 1
    /\ Cardinality(Published(results)) = 2

\* C10: no reader of the pair, the live display included, sees an account's
\* records in self.results without the counter advanced for it, or the
\* counter advanced without the records.
C10_ReaderSeesPairInStep == display.records = display.completed

\* C11: at every moment the number of account scan tasks that have started
\* and not finished is at most max_workers.
C11_AtMostMaxWorkersRunning == Cardinality(Running) <= max_workers

\* Every thread of a pool smaller than the account list is busy and a task
\* waits in the queue.
C11_Witness ==
    /\ max_workers < Len(accounts)
    /\ Cardinality(Running) = max_workers
    /\ \E i \in Tasks : task[i].pc = "queued"

\* The summary statistics of a run over at least one account were computed.
Summarized == pc \in {"csv", "return", "main", "exit"} /\ accounts # <<>>

\* The accounts whose credential exchange succeeded.
Assumed == {i \in Tasks : task[i].assume_calls > 0 /\ ~Scenario(i).denied}

\* C20: in the summary of a finished run the number reported as accessible
\* accounts is the number of accounts whose credential exchange succeeded,
\* and so is at most the total number of accounts.
C20_AccessibleCountsAccounts ==
    Summarized =>
        /\ summary.accessible_accounts = Cardinality(Assumed)
        /\ summary.accessible_accounts <= summary.total_accounts

\* What one account's scan returns when it is run alone from its first call to
\* its return: the outcome of the account.
RECURSIVE PagesFrom(_, _, _)
PagesFrom(account, sc, loc) ==
    IF loc.raised \/ loc.page = NumPages(sc) THEN AccountResults(account, loc)
    ELSE PagesFrom(account, sc, ScanPage(account, sc, loc))

Outcome(account, sc) ==
    IF sc.denied THEN DeniedResults(account)
    ELSE PagesFrom(account, sc, ScanPage(account, sc, NoLocals))

\* The outcomes of the directory's active accounts from entry e on, one after
\* the other.
RECURSIVE OutcomesFrom(_)
OutcomesFrom(e) ==
    IF e > Len(org.entries) THEN <<>>
    ELSE IF org.entries[e].active
    THEN Outcome([Id |-> AccountId(e), Name |-> AccountName(e)],
                 org.entries[e].scenario)
         \o OutcomesFrom(e + 1)
    ELSE OutcomesFrom(e + 1)

StrictlyAscending(records) ==
    \A k \in 1..(Len(records) - 1) : KeyLess(records[k], records[k + 1])

SameRecords(x, y) ==
    /\ Len(x) = Len(y)
    /\ {x[k] : k \in 1..Len(x)} = {y[k] : k \in 1..Len(y)}

\* C12: the counters of the summary and the sorted records written out are
\* those of the accounts' outcomes taken one after the other, whatever the
\* pool size and the order the tasks completed in.
C12_SummaryIndependentOfSchedule ==
    Summarized =>
        /\ summary.total_accounts =
               Cardinality({e \in 1..Len(org.entries) : org.entries[e].active})
        /\ summary.total_results = Len(OutcomesFrom(1))
        /\ summary.accessible_accounts = CountAccessible(OutcomesFrom(1))
        /\ summary.roles_with_boundary = CountExists(OutcomesFrom(1))
        /\ csv.kind = "list" =>
               /\ StrictlyAscending(csv.records)
               /\ SameRecords(csv.records, OutcomesFrom(1))

\* Two threads ran two accounts, the one listed second published first and
\* with two records, and the sorted records were written.
C12_Witness ==
    /\ pc = "exit"
    /\ max_workers = 2
    /\ Len(accounts) = 2
    /\ Len(results) = 3
    /\ results[1].account_id = accounts[2].Id
    /\ results[2].account_id = accounts[2].Id
    /\ csv.kind = "list"

\* The terminal outcome of a task that has returned from scan_account_roles.
TerminalOutcome(i) ==
    IF Scenario(i).denied THEN "DelegationDenied"
    ELSE IF task[i].loc.raised THEN "EnumerationFailed"
    ELSE "EnumerationSucceeded"

\* One task per discovered account, the credential exchange called at most
\* once for it, and a returned task's record of its one outcome: no listing
\* after a denial, one Error record after a failure.
AttemptedOnce ==
    /\ \A i, j \in Tasks : accounts[i].Id = accounts[j].Id => i = j
    /\ \A i \in Tasks :
         /\ task[i].assume_calls <= 1
         /\ task[i].list_calls <= NumPages(Scenario(i))
         /\ Returned(i) =>
              /\ task[i].assume_calls = 1
              /\ TerminalOutcome(i) = "DelegationDenied" =>
                   /\ task[i].list_calls = 0
                   /\ task[i].account_results[1].has_permission_boundary = "N/A"
              /\ TerminalOutcome(i) = "EnumerationFailed" =>
                   task[i].account_results[1].has_permission_boundary = "Error"
              /\ TerminalOutcome(i) = "EnumerationSucceeded" =>
                   /\ task[i].list_calls = NumPages(Scenario(i))
                   /\ task[i].account_results[1].has_permission_boundary
                          \in {"Exists", "Missing"}

\* A task that has returned stays returned, with the outcome and the calls it
\* had.
StaysTerminal ==
    \A i \in Tasks :
        Returned(i) =>
            /\ i \in 1..Len(accounts')
            /\ task'[i].pc \in {"scanned", "locked", "done"}
            /\ task'[i].account_results = task[i].account_results
            /\ task'[i].assume_calls = task[i].assume_calls
            /\ task'[i].list_calls = task[i].list_calls
            /\ task'[i].loc = task[i].loc

\* C16: within one run every discovered account has one task, that task
\* calls the credential exchange at most once and ends in exactly one of the
\* outcomes denied, failed, succeeded, and a task that has ended is neither
\* run again nor given another outcome.
C16_EachAccountAttemptedOnce == []AttemptedOnce /\ [][StaysTerminal]_vars

\* A run has ended with one account denied and one whose listing failed on
\* its second page, each after one credential exchange.
C16_Witness ==
    /\ pc = "exit"
    /\ \E i, j \in Tasks :
         /\ task[i].pc = "done" /\ TerminalOutcome(i) = "DelegationDenied"
         /\ task[j].pc = "done" /\ TerminalOutcome(j) = "EnumerationFailed"
         /\ task[j].list_calls = 2
         /\ task[i].assume_calls = 1 /\ task[j].assume_calls = 1

\* A Ctrl-C has arrived.
Interrupted == exc.kind = "KeyboardInterrupt"

\* C13: after a user interrupt arrives during a run no new account scan task
\* is dispatched: an account whose task had not begun executing when the
\* interrupt arrived is not started afterwards.
C13_NoTaskStartedAfterInterrupt ==
    Interrupted =>
        \A i \in exc.queued \cup exc.unsubmitted :
            task[i].pc \in {"queued", "unsubmitted"}

\* The records of results that belong to none of the accounts.
Foreign ==
    {k \in 1..Len(results) :
        \A i \in Tasks : results[k].account_id # accounts[i].Id}

\* C14: in every state of a run, the one a user interrupt arrives in and
\* those after it included, self.results holds for every account either
\* nothing or the whole record list its task returned, once, in the
\* per-account shape, and nothing else.
C14_OnlyCompleteGroups ==
    /\ Foreign = {}
    /\ \A i \in Tasks :
         \/ GroupOf(results, accounts[i].Id) = <<>>
         \/ /\ GroupOf(results, accounts[i].Id) = task[i].account_results
            /\ WellShaped(GroupOf(results, accounts[i].Id))
            /\ task[i].pc \in {"locked", "done"}

\* A Ctrl-C has arrived while one account's two records were published and
\* the other account's task holds its records, not yet appended.
C14_Witness ==
    /\ Interrupted
    /\ pc = "shutdown"
    /\ \E i, j \in Tasks :
         /\ Len(GroupOf(results, accounts[i].Id)) = 2
         /\ task[j].pc = "scanned"
         /\ GroupOf(results, accounts[j].Id) = <<>>

\* scan_all_accounts has returned and main has reported: after the summary
\* when there were accounts.
Terminated ==
    /\ pc = "exit"
    /\ accounts # <<>> =>
         /\ \A i \in Tasks : task[i].pc = "done"
         /\ summary.total_accounts = Len(accounts)
         /\ ret.kind = "list"

\* C15: when every call of the credential and listing services returns or
\* fails and the pool runs its queued tasks, a run over any finite account
\* set ends: the wait for the tasks is over and the summary is produced, also
\* when tasks fail.
C15_RunTerminates == <>Terminated

\* A run of two accounts on one thread has ended after the summary, the
\* listing of one account having failed.
C15_Witness ==
    /\ Terminated
    /\ max_workers = 1
    /\ Len(accounts) = 2
    /\ \E i \in Tasks : task[i].loc.raised

\* The tasks an exception has escaped from.
Escaped == {i \in Tasks : task[i].pc = "raised"}

\* C17: an exception that escapes one account's worker is caught in the loop
\* over as_completed and printed for that account: nothing travels up out of
\* scan_all_accounts, every other task runs to its end and publishes its
\* records, the wait for the futures is not held up, and the run goes on to
\* the summary and returns its records.
C17_EscapedExceptionIsCaught ==
    Escaped # {} =>
        /\ exc = NoException
        /\ pc \notin {"shutdown", "propagate"}
        /\ verdict \in {"none", "completed", "failed"}
        /\ \A i \in Escaped : i \in handled => i \in logged
        /\ (pc = "wait" /\ Running = {} /\ submitted = Len(accounts)
               /\ \A j \in Tasks : task[j].pc # "queued") =>
             (Done \ handled # {} \/ AllFuturesDone)
        /\ pc \notin {"start", "submit", "wait"} =>
             /\ Escaped \subseteq logged
             /\ \A j \in Tasks \ Escaped :
                  /\ task[j].pc = "done"
                  /\ GroupOf(results, accounts[j].Id) = task[j].account_results
        /\ pc \in {"csv", "return", "main", "exit"} =>
             summary.total_accounts = Len(accounts)
        /\ pc \in {"main", "exit"} => ret = ListOf(results)

\* The first account's worker raised while the second was still queued; the
\* second then ran and published two records, and the run ended after its
\* summary.
C17_Witness ==
    /\ pc = "exit"
    /\ Len(accounts) = 2
    /\ task[1].pc = "raised"
    /\ task[2].pc = "done"
    /\ logged = {1}
    /\ results[Len(results)].account_id = accounts[2].Id
    /\ Len(GroupOf(results, accounts[2].Id)) = 2
    /\ summary.total_accounts = 2
    /\ verdict = "completed"

\* The tasks that have called sts.assume_role.
Exchanged == {i \in Tasks : task[i].assume_calls > 0}

\* C18: any two credential-exchange calls of one run, those made in the same
\* second included, carry distinct session names.
C18_SessionNamesDistinct ==
    \A i, j \in Exchanged :
        i # j => task[i].session_name # task[j].session_name

\* What the tasks of the current invocation returned, from task i on.
RECURSIVE TaskResultsFrom(_)
TaskResultsFrom(i) ==
    IF i > Len(accounts) THEN <<>>
    ELSE task[i].account_results \o TaskResultsFrom(i + 1)

\* C19: the records an invocation of scan_all_accounts returns are exactly
\* those its own tasks produced, also when it is a later invocation on the
\* same scanner: no record of an earlier run is among them.
C19_ReturnsOnlyOwnRecords ==
    RunFinished =>
        /\ Len(ret.records) = Len(TaskResultsFrom(1))
        /\ \A i \in Tasks :
             GroupOf(ret.records, accounts[i].Id) = task[i].account_results

=============================================================================
